---- MODULE Spec2Model ----
(***************************************************************************)
(* Exchange-rate ETL: the payload cache written by the fetch and backfill  *)
(* scripts, the chunk planner of the backfill, the extract/transform stage *)
(* that loads dim_time and fact_exchange_rate, the rebuild of dim_time     *)
(* from the fact table, and the seeding of dim_currency.                   *)
(*                                                                         *)
(* Dates are proleptic Gregorian ordinals (date.toordinal()); a date       *)
(* string "YYYY-MM-DD" is the tuple <<y, m, d>>.  Rates are integers in    *)
(* units of 10^-7 in a payload and in units of 10^-6 (NUMERIC quantized to *)
(* six places) in the fact table.                                          *)
(***************************************************************************)
EXTENDS Integers, Sequences, FiniteSets, TLC

VARIABLES
    cacheFile,      \* data/historical_exchange_rates.json: [kind, data]
    fact,           \* fact_exchange_rate, rows in load order
    dim_time,       \* dim_time, rows in load order
    pc,             \* position of the running fetch/backfill script, "idle" when none
    existing_data,  \* the running script's in-memory payload list
    existing_dates, \* the running script's known-dates set
    plan,           \* backfill main(): start_date, end_date, CHUNKS, ranges
    cursor,         \* backfill: [idx, date] of the walk; fetch: i of the loop
    now,            \* clock, advanced by every successful fetch
    lastExit,       \* how the last fetch/backfill script ended
    lastET,         \* what the last extract_transform run did
    recorded,       \* dates appended to existing_data by the running script
    lostDates,      \* dates recorded in memory by a backfill that was then terminated
    failed,         \* dates whose fetch failed in the running script
    lastRebuild,    \* what the last rebuild_dim_time run did
    dim_currency,   \* dim_currency, rows in insertion order
    lastSeed        \* what the last create_dim_currency run did

vars == <<cacheFile, fact, dim_time, pc, existing_data, existing_dates, plan,
          cursor, now, lastExit, lastET, recorded, lostDates, failed, lastRebuild,
          dim_currency, lastSeed>>

currencyVars == <<dim_currency, lastSeed>>

----------------------------------------------------------------------------
(* Bounds of the model *)

\* date.today() is Epoch1999 + HorizonDays
HorizonDays == 2
\* successful fetches over the whole behaviour
MaxClock == 2
\* planner inputs: start and end range over Epoch1999 - 1 .. Epoch1999 + MaxSpan
MaxSpan == 5
\* most entries of a cache list handed to extract_transform alone
MaxEntries == 2
\* most lines of a currencies.csv handed to create_dim_currency
MaxLines == 2
\* days of the window the calendar builders are tried on
CalDays == 120

(* Program constants *)

\* date(1999, 1, 1).toordinal()
Epoch1999 == 729755
DaysPerYear == 365

None == "None"
\* a missing "date" field, and NaT
NoDate == <<>>

----------------------------------------------------------------------------
(* Calendar *)

\* date.fromordinal(n) as <<year, month, day>>; isoformat() prints exactly these
IsoFormat(n) ==
    LET z   == n + 305
        era == z \div 146097
        doe == z - era * 146097
        yoe == (doe - doe \div 1460 + doe \div 36524 - doe \div 146096) \div 365
        doy == doe - (365 * yoe + yoe \div 4 - yoe \div 100)
        mp  == (5 * doy + 2) \div 153
        d   == doy - (153 * mp + 2) \div 5 + 1
        m   == IF mp < 10 THEN mp + 3 ELSE mp - 9
        y   == yoe + era * 400 + (IF m <= 2 THEN 1 ELSE 0)
    IN  <<y, m, d>>

IsLeap(y) == (y % 4 = 0 /\ y % 100 # 0) \/ y % 400 = 0

DaysInMonth(y, m) ==
    IF m = 2 THEN (IF IsLeap(y) THEN 29 ELSE 28)
    ELSE IF m \in {4, 6, 9, 11} THEN 30 ELSE 31

\* pd.to_datetime(s, errors="coerce"): the date, or NaT when s is no calendar date
ToDatetime(s) ==
    IF /\ s # NoDate
       /\ s[2] \in 1..12
       /\ s[3] >= 1
       /\ s[3] <= DaysInMonth(s[1], s[2])
    THEN s ELSE NoDate

\* dt.strftime("%Y%m%d").astype(int)
DateKey(dt) == dt[1] * 10000 + dt[2] * 100 + dt[3]

\* chronological order of two dates
DateLess(a, b) == DateKey(a) < DateKey(b)

\* the day number of a date (date.toordinal()), for timedelta arithmetic
ToOrdinal(dt) ==
    LET y   == IF dt[2] <= 2 THEN dt[1] - 1 ELSE dt[1]
        era == y \div 400
        yoe == y - era * 400
        mp  == IF dt[2] > 2 THEN dt[2] - 3 ELSE dt[2] + 9
        doy == (153 * mp + 2) \div 5 + dt[3] - 1
        doe == yoe * 365 + yoe \div 4 - yoe \div 100 + doy
    IN  era * 146097 + doe - 305

\* the month offsets of pandas' dayofweek
SakamotoArr == <<0, 3, 2, 5, 0, 3, 5, 1, 4, 6, 2, 4>>

\* a weekday count that starts at Sunday
DayOfWeekFromSunday(dt) ==
    LET y == IF dt[2] < 3 THEN dt[1] - 1 ELSE dt[1]
    IN  (y + y \div 4 - y \div 100 + y \div 400 + SakamotoArr[dt[2]] + dt[3]) % 7

\* Series.dt.dayofweek: Monday is 0, Sunday is 6
DayOfWeek(dt) ==
    LET y   == IF dt[2] < 3 THEN dt[1] - 1 ELSE dt[1]
        day == (y + y \div 4 - y \div 100 + y \div 400 + SakamotoArr[dt[2]] + dt[3]) % 7
    IN  (day + 6) % 7

DayNames == <<"Monday", "Tuesday", "Wednesday", "Thursday", "Friday", "Saturday", "Sunday">>
MonthNames == <<"January", "February", "March", "April", "May", "June", "July",
                "August", "September", "October", "November", "December">>

\* PARSE_DATE('%Y%m%d', CAST(date_key AS STRING))
ParseDate(date_key) == <<date_key \div 10000, (date_key \div 100) % 100, date_key % 100>>

----------------------------------------------------------------------------
(* Chunk planner *)

Max(a, b) == IF a >= b THEN a ELSE b

RECURSIVE ChunkLoop(_, _, _, _, _, _)
\* the for-loop of chunk_ranges, from iteration idx with chunk_start and ranges so far
ChunkLoop(idx, chunk_start, ranges, end, chunks, chunk_size) ==
    IF idx >= chunks THEN ranges
    ELSE LET stepped   == chunk_start + (chunk_size - 1)
             chunk_end == IF idx = chunks - 1 \/ stepped > end THEN end ELSE stepped
             ranges2   == Append(ranges, <<chunk_start, chunk_end>>)
             next      == chunk_end + 1
         IN  IF next > end THEN ranges2
             ELSE ChunkLoop(idx + 1, next, ranges2, end, chunks, chunk_size)

\* a variant that drops the "last chunk runs to end" rule
ChunkRangesNoRemainder(start, end, chunks) ==
    IF chunks = 0
    THEN [raised |-> "ZeroDivisionError", ranges |-> <<>>]
    ELSE LET size == Max(1, ((end - start) + 1) \div chunks)
         IN  [raised |-> None,
              ranges |-> [i \in 1..chunks |->
                            <<start + (i - 1) * size, start + i * size - 1>>]]

\* a planner whose chunk size is rounded up instead of down
ChunkRangesCeil(start, end, chunks) ==
    IF chunks = 0
    THEN [raised |-> "ZeroDivisionError", ranges |-> <<>>]
    ELSE LET total_days == (end - start) + 1
             chunk_size == Max(1, (total_days + chunks - 1) \div chunks)
         IN  [raised |-> None,
              ranges |-> ChunkLoop(0, start, <<>>, end, chunks, chunk_size)]

\* chunk_ranges(start, end, chunks): [raised, ranges]
ChunkRanges(start, end, chunks) ==
    IF chunks = 0
    THEN [raised |-> "ZeroDivisionError", ranges |-> <<>>]
    ELSE LET total_days == (end - start) + 1
             chunk_size == Max(1, total_days \div chunks)
         IN  [raised |-> None,
              ranges |-> ChunkLoop(0, start, <<>>, end, chunks, chunk_size)]

----------------------------------------------------------------------------
(* Rate provider and payloads *)

BASE_CURRENCY == "AUD"

\* the "rates" object of a response, in JSON key order
\* a rate is <<n>>, n in units of 10^-7, or <<>> for JSON null
RateMaps ==
    { << <<"USD", <<6500004>> >> >>,
      << <<"USD", <<6500005>> >>, <<"EUR", <<6500004>> >> >> }

\* the "date" field a response may carry besides the requested one
EchoDate == IsoFormat(Epoch1999)

\* JSON values: an object with its items in key order, an array, and the
\* None that dict.get gives for a key the object does not have
JsonObject(items) == [json |-> "object", items |-> items]
JsonArray == [json |-> "array", items |-> <<>>]
Absent    == [json |-> "absent", items |-> <<>>]

\* isinstance(value, dict)
IsDict(value) == value.json = "object"

\* a cache entry or response body: json is its JSON type; base is <<code>>, or
\* <<>> when the object has no "base"; date is NoDate when it has no "date"
Entry(json, base, date, rates, timestamp, fetched_at) ==
    [json |-> json, base |-> base, date |-> date, rates |-> rates,
     timestamp |-> timestamp, fetched_at |-> fetched_at]

\* a JSON array where an object is expected
ArrayEntry == Entry("array", <<>>, NoDate, Absent, 0, 0)

\* the JSON objects of a 200 response, and a 200 response that is no object
ResponseBodies(clock) ==
    {Entry("object", <<BASE_CURRENCY>>, d, JsonObject(m), clock, 0) :
        d \in {NoDate, EchoDate}, m \in RateMaps}
        \cup {ArrayEntry}

FailureKinds == {"RequestException", "Non200", "InvalidJSON"}

\* what requests.get / resp.json() can give for one date
Responses(clock) ==
    [kind : FailureKinds, body : {<<>>}]
        \cup [kind : {"ok"}, body : {<<b>> : b \in ResponseBodies(clock)}]

\* a fetch that lets the request's failure escape
FetchDateFatal(date_str, resp, clock) ==
    IF resp.kind # "ok" THEN [raised |-> resp.kind, payload |-> <<>>]
    ELSE LET body == resp.body[1]
         IN  IF ~IsDict(body) THEN [raised |-> "TypeError", payload |-> <<>>]
             ELSE [raised  |-> None,
                   payload |-> << [body EXCEPT
                                     !.date = IF @ = NoDate THEN date_str ELSE @,
                                     !.fetched_at = clock] >>]

\* fetch_date(target_date, params): payload is <<>> for None, else <<payload>>
\* with fetched_at stamped and date defaulted to the requested date; raised is
\* the TypeError of the item assignment on a body that is no object
FetchDate(date_str, resp, clock) ==
    IF resp.kind # "ok" THEN [raised |-> None, payload |-> <<>>]
    ELSE LET body == resp.body[1]
         IN  IF ~IsDict(body) THEN [raised |-> "TypeError", payload |-> <<>>]
             ELSE [raised  |-> None,
                   payload |-> << [body EXCEPT
                                     !.date = IF @ = NoDate THEN date_str ELSE @,
                                     !.fetched_at = clock] >>]

----------------------------------------------------------------------------
(* Payload cache *)

AbsentFile  == [kind |-> "absent",  data |-> <<>>]
\* a truncated or otherwise unparseable file
InvalidFile == [kind |-> "invalid", data |-> <<>>]
\* valid JSON that is an object, and valid JSON that is a number, null or boolean
ObjectFile  == [kind |-> "object",  data |-> <<>>]
ScalarFile  == [kind |-> "scalar",  data |-> <<>>]
ListFile(data) == [kind |-> "list", data |-> data]

InitialFiles == {AbsentFile, InvalidFile, ObjectFile, ScalarFile, ListFile(<<>>)}

Range(seq) == {seq[i] : i \in DOMAIN seq}

\* the sequences over S of length at most n
SeqsUpTo(S, n) == UNION {[1..k -> S] : k \in 0..n}

\* a loader that lets json.JSONDecodeError escape
\* (load_existing_records without its except clause for it)
LoadExistingRecordsStrict(file) ==
    IF file.kind = "invalid"
    THEN [raised |-> "JSONDecodeError", data |-> <<>>, dates |-> {}]
    ELSE LET data == IF file.kind = "list" THEN file.data ELSE <<>>
         IN  [raised |-> None, data |-> data,
              dates |-> {data[i].date : i \in {j \in DOMAIN data : IsDict(data[j])}}]

\* a loader that keeps the dates of the file but starts from an empty list
LoadExistingRecordsFresh(file) ==
    LET data == IF file.kind = "list" THEN file.data ELSE <<>>
    IN  [raised |-> None,
         data   |-> <<>>,
         dates  |-> {data[i].date : i \in {j \in DOMAIN data : IsDict(data[j])}}]

\* load_existing_records(path): [raised, data, dates]
LoadExistingRecords(file) ==
    LET data == IF file.kind = "list" THEN file.data ELSE <<>>
    IN  [raised |-> None,
         data   |-> data,
         dates  |-> {data[i].date : i \in {j \in DOMAIN data : IsDict(data[j])}}]

\* the load at the top of fetch_historical_rate.py
FetchLoadExisting(file) ==
    LET data == IF file.kind = "list" THEN file.data ELSE <<>>
    IN  [raised |-> None,
         data   |-> data,
         dates  |-> {data[i].date :
                       i \in {j \in DOMAIN data : IsDict(data[j]) /\ data[j].date # NoDate}}]

----------------------------------------------------------------------------
(* Script state *)

NoPlan   == [start |-> 0, end |-> 0, chunks |-> 0, ranges |-> <<>>, raised |-> None,
             status |-> "none"]
NoCursor == [idx |-> 0, date |-> 0, n |-> 0]
NoET     == [status |-> "none", cands |-> <<>>, inserted |-> 0, expected |-> 0,
             repeat |-> FALSE, kind |-> "none"]
NoRebuild == [status |-> "none"]
NoSeed    == [status |-> "none"]

Today == Epoch1999 + HorizonDays

\* values of BACKFILL_YEARS, BACKFILL_CHUNKS and FETCH_DAYS the runs are tried with
YearChoices     == {0, 1}
ChunkChoices    == {1, 2}
FetchDayChoices == {1, 2}

BackfillPcs == {"bf_walk", "bf_open"}
FetchPcs    == {"fh_walk", "fh_open"}

Init ==
    /\ cacheFile \in InitialFiles
    /\ fact = <<>>
    /\ dim_time = <<>>
    /\ pc = "idle"
    /\ existing_data = <<>>
    /\ existing_dates = {}
    /\ plan = NoPlan
    /\ cursor = NoCursor
    /\ now = 0
    /\ lastExit = "none"
    /\ lastET = NoET
    /\ recorded = {}
    /\ lostDates = {}
    /\ failed = {}
    /\ lastRebuild = NoRebuild
    /\ dim_currency = <<>>
    /\ lastSeed = NoSeed

\* the script ends: its memory is gone
Exit(how) ==
    /\ pc' = "idle"
    /\ existing_data' = <<>>
    /\ existing_dates' = {}
    /\ plan' = NoPlan
    /\ cursor' = NoCursor
    /\ recorded' = {}
    /\ failed' = {}
    /\ lastExit' = how

----------------------------------------------------------------------------
(* backfill_historical_rates.py *)

RECURSIVE WalkFrom(_, _, _)
\* the first (chunk, date) at or after (idx, date) that daterange yields;
\* idx = Len(ranges) + 1 when the walk is over
WalkFrom(ranges, idx, date) ==
    IF idx > Len(ranges) THEN [idx |-> idx, date |-> 0, n |-> Len(ranges)]
    ELSE IF date <= ranges[idx][2] THEN [idx |-> idx, date |-> date, n |-> Len(ranges)]
    ELSE IF idx = Len(ranges) THEN [idx |-> idx + 1, date |-> 0, n |-> Len(ranges)]
    ELSE WalkFrom(ranges, idx + 1, ranges[idx + 1][1])

\* main(), lines 115-131: load the cache, plan the chunks
BackfillStart ==
    /\ pc = "idle"
    /\ \E years \in YearChoices, chunks \in ChunkChoices :
        LET loaded == LoadExistingRecords(cacheFile)
            end_date   == Today - 1
            unclamped  == end_date - years * DaysPerYear + 1
            start_date == IF unclamped < Epoch1999 THEN Epoch1999 ELSE unclamped
            planned    == ChunkRanges(start_date, end_date, chunks)
        IN  /\ lastET' = NoET
            /\ lastRebuild' = NoRebuild
            /\ UNCHANGED <<cacheFile, fact, dim_time, now, lostDates>>
            /\ UNCHANGED currencyVars
            /\ IF loaded.raised # None THEN Exit("load_error")
               ELSE IF planned.raised # None THEN Exit("zero_division")
               ELSE IF planned.ranges = <<>> THEN Exit("no_ranges")
               ELSE /\ pc' = "bf_walk"
                    /\ recorded' = {}
                    /\ failed' = {}
                    /\ existing_data' = loaded.data
                    /\ existing_dates' = loaded.dates
                    /\ plan' = [start |-> start_date, end |-> end_date,
                                chunks |-> chunks, ranges |-> planned.ranges,
                                raised |-> None, status |-> "planned"]
                    /\ cursor' = WalkFrom(planned.ranges, 1, planned.ranges[1][1])
                    /\ lastExit' = "running"

\* one pass of a fetch loop for date_str, the loop going on at onward: skip a
\* known date, or fetch it and record the payload under the requested date
Visit(date_str, onward, lost) ==
    IF date_str \in existing_dates
    THEN /\ cursor' = onward
         /\ UNCHANGED <<pc, plan, lastExit, existing_data, existing_dates, now, recorded,
                        failed, lostDates>>
    ELSE \E resp \in Responses(now + 1) :
          LET got == FetchDate(date_str, resp, now + 1)
          IN  IF got.raised # None
              THEN /\ Exit(got.raised)
                   /\ lostDates' = lost
                   /\ UNCHANGED now
              ELSE IF got.payload = <<>>
              THEN /\ cursor' = onward
                   /\ failed' = failed \cup {date_str}
                   /\ UNCHANGED <<pc, plan, lastExit, existing_data, existing_dates,
                                  now, recorded, lostDates>>
              ELSE /\ now < MaxClock
                   /\ cursor' = onward
                   /\ existing_data' = Append(existing_data, got.payload[1])
                   /\ existing_dates' = existing_dates \cup {date_str}
                   /\ recorded' = recorded \cup {date_str}
                   /\ now' = now + 1
                   /\ UNCHANGED <<pc, plan, lastExit, failed, lostDates>>

\* one pass of the inner loop, lines 137-148, for current_date = cursor.date
BackfillStep ==
    /\ pc = "bf_walk"
    /\ cursor.idx <= cursor.n
    /\ UNCHANGED <<cacheFile, fact, dim_time, lastET, lastRebuild>>
    /\ UNCHANGED currencyVars
    /\ Visit(IsoFormat(cursor.date),
             WalkFrom(plan.ranges, cursor.idx, cursor.date + 1), recorded)

\* line 155: open(output_file, "w") truncates the file
BackfillOpen ==
    /\ pc = "bf_walk"
    /\ cursor.idx > cursor.n
    /\ pc' = "bf_open"
    /\ cacheFile' = InvalidFile
    /\ UNCHANGED <<fact, dim_time, existing_data, existing_dates, plan, cursor, now,
                   lastExit, lastET, recorded, lostDates, failed, lastRebuild>>
    /\ UNCHANGED currencyVars

\* line 156: json.dump writes the whole list and the file is closed
BackfillDump ==
    /\ pc = "bf_open"
    /\ cacheFile' = ListFile(existing_data)
    /\ Exit("done")
    /\ lostDates' = {}
    /\ UNCHANGED <<fact, dim_time, now, lastET, lastRebuild>>
    /\ UNCHANGED currencyVars

\* the process is terminated (signal, power loss) wherever it stands
Kill ==
    /\ pc # "idle"
    /\ Exit("killed")
    /\ lostDates' = IF pc \in BackfillPcs THEN recorded ELSE {}
    /\ UNCHANGED <<cacheFile, fact, dim_time, now, lastET, lastRebuild>>
    /\ UNCHANGED currencyVars

----------------------------------------------------------------------------
(* fetch_historical_rate.py *)

\* lines 35-59: read FETCH_DAYS, load the cache
FetchStart ==
    /\ pc = "idle"
    /\ \E fetch_days \in FetchDayChoices :
        LET loaded == FetchLoadExisting(cacheFile)
        IN  /\ recorded' = {}
            /\ lostDates' = {}
            /\ lastET' = NoET
            /\ lastRebuild' = NoRebuild
            /\ failed' = {}
            /\ UNCHANGED <<cacheFile, fact, dim_time, now, plan>>
            /\ UNCHANGED currencyVars
            /\ pc' = "fh_walk"
            /\ existing_data' = loaded.data
            /\ existing_dates' = loaded.dates
            /\ cursor' = [idx |-> 0, date |-> Today, n |-> fetch_days]
            /\ lastExit' = "running"

\* one pass of the loop, lines 72-105, for d = today - i
FetchStep ==
    /\ pc = "fh_walk"
    /\ cursor.idx < cursor.n
    /\ UNCHANGED <<cacheFile, fact, dim_time, lastET, lastRebuild>>
    /\ UNCHANGED currencyVars
    /\ Visit(IsoFormat(Today - cursor.idx),
             [cursor EXCEPT !.idx = @ + 1, !.date = Today - (cursor.idx + 1)], {})

\* line 108: open(output_file, "w") truncates the file
FetchOpen ==
    /\ pc = "fh_walk"
    /\ cursor.idx >= cursor.n
    /\ pc' = "fh_open"
    /\ cacheFile' = InvalidFile
    /\ UNCHANGED <<fact, dim_time, existing_data, existing_dates, plan, cursor, now,
                   lastExit, lastET, recorded, lostDates, failed, lastRebuild>>
    /\ UNCHANGED currencyVars

\* line 109: json.dump writes the whole list and the file is closed
FetchDump ==
    /\ pc = "fh_open"
    /\ cacheFile' = ListFile(existing_data)
    /\ Exit("done")
    /\ lostDates' = {}
    /\ UNCHANGED <<fact, dim_time, now, lastET, lastRebuild>>
    /\ UNCHANGED currencyVars

----------------------------------------------------------------------------
(* extract_transform.py *)

\* ascending order of the currency codes, as Python compares strings
CodeOrder == <<"AUD", "EUR", "GBP", "USD">>
Rank(code) == CHOOSE i \in DOMAIN CodeOrder : CodeOrder[i] = code

RECURSIVE RateRows(_, _, _)
\* the inner loop, lines 55-63: one row per item of rates, in key order
RateRows(entry, rates, i) ==
    IF i > Len(rates) THEN <<>>
    ELSE << [base_currency   |-> entry.base,
             target_currency |-> rates[i][1],
             exchange_date   |-> entry.date,
             rate            |-> rates[i][2],
             timestamp       |-> entry.timestamp,
             fetched_at      |-> entry.fetched_at] >>
         \o RateRows(entry, rates, i + 1)

RECURSIVE Flatten(_, _)
\* lines 42-63: rows of every entry of data, from entry i on
Flatten(data, i) ==
    IF i > Len(data) THEN <<>>
    ELSE (IF IsDict(data[i]) /\ IsDict(data[i].rates)
          THEN RateRows(data[i], data[i].rates.items, 1)
          ELSE <<>>)
         \o Flatten(data, i + 1)

\* sort order of line 73: exchange_date, then target_currency
RowLess(a, b) ==
    \/ DateLess(a.exchange_date, b.exchange_date)
    \/ /\ a.exchange_date = b.exchange_date
       /\ Rank(a.target_currency) < Rank(b.target_currency)

\* r placed after every row that does not sort after it (the sort is stable)
InsertSorted(sorted, r) ==
    LET before == {i \in DOMAIN sorted : ~RowLess(r, sorted[i])}
        k      == IF before = {} THEN 0 ELSE CHOOSE i \in before : \A j \in before : j <= i
    IN  SubSeq(sorted, 1, k) \o <<r>> \o SubSeq(sorted, k + 1, Len(sorted))

\* rows left in the order they were flattened in
Unsorted(rows, i) == SubSeq(rows, 1, i)

RECURSIVE SortValues(_, _)
SortValues(rows, i) ==
    IF i = 0 THEN <<>> ELSE InsertSorted(SortValues(rows, i - 1), rows[i])

\* lines 71-73: parse exchange_date, drop NaT, sort
Normalize(rows) ==
    LET parsed == [i \in DOMAIN rows |->
                     [rows[i] EXCEPT !.exchange_date = ToDatetime(@)]]
        kept   == SelectSeq(parsed, LAMBDA r : r.exchange_date # NoDate)
    IN  SortValues(kept, Len(kept))

RECURSIVE DropDuplicates(_, _)
\* drop_duplicates(): the first occurrence of each value is kept
DropDuplicates(seq, i) ==
    IF i = 0 THEN <<>>
    ELSE LET head == DropDuplicates(seq, i - 1)
         IN  IF seq[i] \in Range(head) THEN head ELSE Append(head, seq[i])

\* lines 88-98: the calendar row of one date; is_weekend is 1 or 0
\* (astype(int)), which the load into the BOOL column turns into a boolean
CalendarRow(dt) ==
    LET day_of_week == DayOfWeek(dt) + 1
        is_weekend  == IF day_of_week \in {6, 7} THEN 1 ELSE 0
    IN  [date_key        |-> DateKey(dt),
         date            |-> dt,
         day_of_week     |-> day_of_week,
         day_name        |-> DayNames[DayOfWeek(dt) + 1],
         is_weekend      |-> is_weekend # 0,
         week_start_date |-> IsoFormat(ToOrdinal(dt) - DayOfWeek(dt)),
         month           |-> dt[2],
         month_name      |-> MonthNames[dt[2]],
         quarter         |-> (dt[2] - 1) \div 3 + 1,
         year            |-> dt[1]]

\* lines 76-115: one calendar row per distinct date of the frame, ascending
DimTimeDf(df) ==
    LET dates == [i \in DOMAIN df |-> df[i].exchange_date]
        uniq  == DropDuplicates(dates, Len(dates))
    IN  [i \in DOMAIN uniq |-> CalendarRow(uniq[i])]

\* astype(str), lines 216-217: str(None) is the text "None"
AsStr(value) == IF value = <<>> THEN "None" ELSE value[1]

\* to_decimal, lines 221-224: six places, half up (value in 10^-7, result in 10^-6)
ToDecimal(value) == IF value = <<>> THEN <<>> ELSE <<(value[1] + 5) \div 10>>

\* lines 214-251: typed columns and the date_key joined from dim_time_df;
\* date_key is <<k>>, or <<>> (NaN) when the left join found no calendar row
DfToInsert(df, dim_time_df) ==
    [i \in DOMAIN df |->
        LET r     == df[i]
            match == {j \in DOMAIN dim_time_df : dim_time_df[j].date = r.exchange_date}
        IN  [exchange_date   |-> r.exchange_date,
             base_currency   |-> AsStr(r.base_currency),
             target_currency |-> AsStr(<<r.target_currency>>),
             rate            |-> ToDecimal(r.rate),
             timestamp       |-> r.timestamp,
             fetched_at      |-> r.fetched_at,
             date_key        |-> IF match = {} THEN <<>>
                                 ELSE <<dim_time_df[CHOOSE k \in match : TRUE].date_key>>]]


\* a read that treats a missing or unparseable file as an empty list
ReadCacheTolerant(file) ==
    [raised |-> None,
     kind   |-> file.kind,
     data   |-> file.data]

\* lines 33-39: [raised, kind, data] of the JSON read
ReadCache(file) ==
    IF file.kind = "absent" THEN [raised |-> "FileNotFoundError", kind |-> file.kind, data |-> <<>>]
    ELSE IF file.kind = "invalid" THEN [raised |-> "JSONDecodeError", kind |-> file.kind, data |-> <<>>]
    ELSE [raised |-> None, kind |-> file.kind, data |-> file.data]

\* the key triple of a fact row or a candidate row
KeyOf(r) == <<r.date_key, r.base_currency, r.target_currency>>

\* a window that leaves out its upper end
ExistingKeysHalfOpen(factTbl, min_key, max_key) ==
    {KeyOf(factTbl[i]) :
        i \in {j \in DOMAIN factTbl :
                 factTbl[j].date_key >= min_key /\ factTbl[j].date_key < max_key}}

\* lines 256-272: the key triples of the fact rows with date_key in the window
ExistingKeys(factTbl, min_key, max_key) ==
    {KeyOf(factTbl[i]) :
        i \in {j \in DOMAIN factTbl :
                 factTbl[j].date_key >= min_key /\ factTbl[j].date_key <= max_key}}

\* a filter that keeps every candidate
NewRowsUnfiltered(cands, existing_keys) == cands

\* lines 274-281: the candidates whose key is not among existing_keys
NewRows(cands, existing_keys) ==
    SelectSeq(cands, LAMBDA r : KeyOf(r) \notin existing_keys)

\* line 285: COALESCE(MAX(id), 0)
MaxId(factTbl) ==
    IF factTbl = <<>> THEN 0
    ELSE LET ids == {factTbl[i].id : i \in DOMAIN factTbl}
         IN  CHOOSE m \in ids : \A x \in ids : x <= m

\* ids that start at the largest id in use instead of the one after it
AssignIdsFromMax(rows, max_id) ==
    [i \in DOMAIN rows |->
        [id              |-> max_id + i - 1,
         date_key        |-> rows[i].date_key,
         base_currency   |-> rows[i].base_currency,
         target_currency |-> rows[i].target_currency,
         rate            |-> rows[i].rate,
         timestamp       |-> rows[i].timestamp,
         fetched_at      |-> rows[i].fetched_at]]

\* lines 287-291: ids start_id .. start_id + len - 1 in frame order
AssignIds(rows, max_id) ==
    [i \in DOMAIN rows |->
        [id              |-> max_id + i,
         date_key        |-> rows[i].date_key,
         base_currency   |-> rows[i].base_currency,
         target_currency |-> rows[i].target_currency,
         rate            |-> rows[i].rate,
         timestamp       |-> rows[i].timestamp,
         fetched_at      |-> rows[i].fetched_at]]

\* a load that replaces the table
LoadReplace(table, rows) == rows

\* load_table_from_dataframe with WRITE_APPEND, lines 296-303
LoadAppend(table, rows) == table \o rows

\* load_table_from_dataframe with WRITE_TRUNCATE, lines 203-208
LoadTruncate(table, rows) == rows

MinOf(S) == CHOOSE m \in S : \A x \in S : m <= x
MaxOf(S) == CHOOSE m \in S : \A x \in S : x <= m

\* the run stops before any table is written
ETStop(status, kind) ==
    /\ lastET' = [status |-> status, cands |-> <<>>, inserted |-> 0, expected |-> 0,
                  repeat |-> lastET.status = "no_rows" /\ status = "no_rows",
                  kind |-> kind]
    /\ UNCHANGED <<fact, dim_time>>

\* one run of the script, top to bottom; each frame the script builds is bound
\* once, as the only member of a set
ExtractTransform ==
    /\ pc = "idle"
    /\ UNCHANGED <<cacheFile, pc, existing_data, existing_dates, plan, cursor, now,
                   lastExit, recorded, lostDates, failed>>
    /\ UNCHANGED currencyVars
    /\ lastRebuild' = NoRebuild
    /\ \E read \in {ReadCache(cacheFile)} :
       \E rows \in {Flatten(read.data, 1)} :
       \E df \in {Normalize(rows)} :
       \E dim_time_df \in {DimTimeDf(df)} :
       \E joined \in {DfToInsert(df, dim_time_df)} :
           IF read.raised = "FileNotFoundError" THEN ETStop("not_found", read.kind)
           ELSE IF read.raised = "JSONDecodeError" THEN ETStop("invalid_json", read.kind)
           ELSE IF read.kind = "scalar" THEN ETStop("type_error", read.kind)
           ELSE IF rows = <<>> THEN ETStop("no_rows", read.kind)
           ELSE IF dim_time_df = <<>> THEN ETStop("no_calendar", read.kind)
           ELSE /\ dim_time' = LoadTruncate(dim_time, dim_time_df)
                /\ IF \E i \in DOMAIN joined : joined[i].date_key = <<>>
                   THEN /\ fact' = fact
                        /\ lastET' = [status |-> "missing_date_key", cands |-> <<>>,
                                      inserted |-> 0, expected |-> 0, repeat |-> FALSE,
                                      kind |-> read.kind]
                   ELSE \E cands \in {[i \in DOMAIN joined |->
                                        [joined[i] EXCEPT !.date_key = @[1]]]} :
                        \E dkeys \in {{cands[i].date_key : i \in DOMAIN cands}} :
                        \E existing_keys \in {ExistingKeys(fact, MinOf(dkeys),
                                                             MaxOf(dkeys))} :
                        \E df_to_insert \in {NewRows(cands, existing_keys)} :
                        \E allKeys \in {{KeyOf(fact[i]) : i \in DOMAIN fact}} :
                            IF \E i \in DOMAIN df_to_insert : df_to_insert[i].rate = <<>>
                            THEN /\ fact' = fact
                                 /\ lastET' = [status |-> "load_failed", cands |-> <<>>,
                                               inserted |-> 0, expected |-> 0,
                                               repeat |-> FALSE, kind |-> read.kind]
                            ELSE
                            /\ fact' = IF df_to_insert = <<>> THEN fact
                                       ELSE LoadAppend(fact, AssignIds(df_to_insert,
                                                                       MaxId(fact)))
                            /\ lastET' =
                                 [status   |-> "ok",
                                  cands    |-> cands,
                                  inserted |-> Len(df_to_insert),
                                  expected |-> Cardinality({i \in DOMAIN cands :
                                                   KeyOf(cands[i]) \notin allKeys}),
                                  repeat   |-> lastET.status = "ok" /\ lastET.cands = cands,
                                  kind     |-> read.kind]

----------------------------------------------------------------------------
(* rebuild_dim_time.py *)

\* the query without DISTINCT: one row per fact row
FactDatesAll(factTbl) ==
    [i \in DOMAIN factTbl |->
        [date_key |-> factTbl[i].date_key, calendar_date |-> ParseDate(factTbl[i].date_key)]]

\* lines 27-37: SELECT DISTINCT date_key, calendar_date ... ORDER BY date_key
FactDates(factTbl) ==
    LET keys == {factTbl[i].date_key : i \in DOMAIN factTbl}
        nth[k \in 1..Cardinality(keys)] ==
            CHOOSE x \in keys : Cardinality({y \in keys : y < x}) = k - 1
    IN  [k \in 1..Cardinality(keys) |->
            [date_key |-> nth[k], calendar_date |-> ParseDate(nth[k])]]

\* lines 44-72: the calendar row of one (date_key, calendar_date) of the query
RebuildRow(fd) ==
    LET dt          == fd.calendar_date
        day_of_week == DayOfWeek(dt) + 1
    IN  [date_key        |-> fd.date_key,
         date            |-> dt,
         day_of_week     |-> day_of_week,
         day_name        |-> DayNames[DayOfWeek(dt) + 1],
         is_weekend      |-> day_of_week \in {6, 7},
         week_start_date |-> IsoFormat(ToOrdinal(dt) - DayOfWeek(dt)),
         month           |-> dt[2],
         month_name      |-> MonthNames[dt[2]],
         quarter         |-> (dt[2] - 1) \div 3 + 1,
         year            |-> dt[1]]

\* one run of the script, top to bottom
RebuildDimTime ==
    /\ pc = "idle"
    /\ UNCHANGED <<cacheFile, fact, pc, existing_data, existing_dates, plan, cursor, now,
                   lastExit, lastET, recorded, lostDates, failed>>
    /\ UNCHANGED currencyVars
    /\ LET fact_dates == FactDates(fact)
       IN  IF fact_dates = <<>>
           THEN /\ lastRebuild' = [status |-> "no_rows"]
                /\ UNCHANGED dim_time
           ELSE /\ lastRebuild' = [status |-> "ok"]
                /\ dim_time' = LoadTruncate(dim_time,
                                            [i \in DOMAIN fact_dates |->
                                                RebuildRow(fact_dates[i])])

----------------------------------------------------------------------------
(* create_dim_currency.py *)

\* lines 12-17
default_rows ==
    << <<"EUR", "Euro">>, <<"GBP", "British Pound">>,
       <<"AUD", "Australian Dollar">>, <<"USD", "US Dollar">> >>

\* data lines of currencies.csv: <<tokens of the first column, name>>
CsvLines ==
    { << <<"AUD">>, "Australian Dollar">>, << <<"AUD">>, "Dollar">>,
      << <<"USD">>, "US Dollar">>,
      << <<"EUR", "USD">>, "Euro or Dollar">>, << <<"EU">>, "Europe">> }

\* the seed of one run: no CSV file (csv |-> <<>>), or <<its data lines>>
Seeds == {[csv |-> <<>>]} \cup {[csv |-> <<lines>>] : lines \in SeqsUpTo(CsvLines, MaxLines)}

RECURSIVE CodesOfLine(_, _, _)
\* lines 64-66: one (code, name) row per three-letter token of a line
CodesOfLine(tokens, name, i) ==
    IF i > Len(tokens) THEN <<>>
    ELSE (IF Len(tokens[i]) = 3 THEN << <<tokens[i], name>> >> ELSE <<>>)
         \o CodesOfLine(tokens, name, i + 1)

RECURSIVE CsvRows(_, _)
\* lines 50-66: the rows read from the CSV lines, from line i on
CsvRows(lines, i) ==
    IF i > Len(lines) THEN <<>>
    ELSE CodesOfLine(lines[i][1], lines[i][2], 1) \o CsvRows(lines, i + 1)

\* lines 48-66: rows is default_rows unless the CSV file exists
SeedRows(seed) == IF seed.csv = <<>> THEN default_rows ELSE CsvRows(seed.csv[1], 1)

\* row placed after every row whose code does not sort after its own
InsertByCode(sorted, row) ==
    LET before == {i \in DOMAIN sorted : Rank(sorted[i][1]) <= Rank(row[1])}
        k      == IF before = {} THEN 0 ELSE CHOOSE i \in before : \A j \in before : j <= i
    IN  SubSeq(sorted, 1, k) \o <<row>> \o SubSeq(sorted, k + 1, Len(sorted))

RECURSIVE SortedByCode(_, _)
\* sorted(rows, key=lambda item: item[0]), line 86
SortedByCode(rows, i) ==
    IF i = 0 THEN <<>> ELSE InsertByCode(SortedByCode(rows, i - 1), rows[i])

RECURSIVE ExistingMap(_, _)
\* lines 77-80: existing_map after the first i rows of the query result
ExistingMap(table, i) ==
    IF i = 0 THEN << >>
    ELSE LET map  == ExistingMap(table, i - 1)
             code == table[i].currency_code
         IN  [c \in DOMAIN map \cup {code} |->
                IF c = code THEN table[i].currency_key ELSE map[c]]

\* a key ceiling that ignores the table
MaxKeyZero(table) == 0

\* lines 75-81: max_key
MaxKey(table) ==
    IF table = <<>> THEN 0 ELSE MaxOf({table[i].currency_key : i \in DOMAIN table} \cup {0})

RECURSIVE RowsPayload(_, _, _, _)
\* the loop of lines 86-96 from row i on, with existing_map and next_key so far
RowsPayload(sorted, i, existing_map, next_key) ==
    IF i > Len(sorted) THEN <<>>
    ELSE LET code  == sorted[i][1]
             known == code \in DOMAIN existing_map
             key   == IF known THEN existing_map[code] ELSE next_key
             map2  == IF known THEN existing_map
                      ELSE [c \in DOMAIN existing_map \cup {code} |->
                              IF c = code THEN key ELSE existing_map[c]]
         IN  << [currency_key |-> key, currency_code |-> code,
                 currency_name |-> sorted[i][2]] >>
             \o RowsPayload(sorted, i + 1, map2,
                            IF known THEN next_key ELSE next_key + 1)

\* the source rows whose currency_code equals that of target row t
Matches(stage, t) == {j \in DOMAIN stage : stage[j].currency_code = t.currency_code}

\* the MERGE of lines 108-115: [raised, table]; a target row that matches more
\* than one source row makes the statement fail
Merge(table, stage) ==
    IF \E i \in DOMAIN table : Cardinality(Matches(stage, table[i])) > 1
    THEN [raised |-> "RuntimeError", table |-> table]
    ELSE LET updated == [i \in DOMAIN table |->
                           LET m == Matches(stage, table[i])
                           IN  IF m = {} THEN table[i]
                               ELSE [table[i] EXCEPT !.currency_name =
                                        stage[CHOOSE j \in m : TRUE].currency_name]]
             codes   == {table[i].currency_code : i \in DOMAIN table}
         IN  [raised |-> None,
              table  |-> updated \o SelectSeq(stage, LAMBDA r : r.currency_code \notin codes)]

\* one run of the script, top to bottom; each value the script builds is bound
\* once, as the only member of a set
CreateDimCurrency ==
    /\ pc = "idle"
    /\ UNCHANGED <<cacheFile, fact, dim_time, pc, existing_data, existing_dates, plan,
                   cursor, now, lastExit, lastET, recorded, lostDates, failed,
                   lastRebuild>>
    /\ \E existing_map \in {ExistingMap(dim_currency, Len(dim_currency))} :
        \E seed \in Seeds :
        \E rows \in {SeedRows(seed)} :
        \E rows_payload \in {RowsPayload(SortedByCode(rows, Len(rows)), 1, existing_map,
                                         MaxKey(dim_currency) + 1)} :
        \E merged \in {Merge(dim_currency, LoadTruncate(<<>>, rows_payload))} :
            IF rows = <<>>
            THEN /\ lastSeed' = [status |-> "no_rows"]
                 /\ UNCHANGED dim_currency
            ELSE /\ lastSeed' = [status |-> IF merged.raised = None THEN "ok"
                                            ELSE "merge_failed"]
                 /\ dim_currency' = merged.table

----------------------------------------------------------------------------
(* Specifications *)

Next ==
    \/ BackfillStart
    \/ BackfillStep
    \/ BackfillOpen
    \/ BackfillDump
    \/ FetchStart
    \/ FetchStep
    \/ FetchOpen
    \/ FetchDump
    \/ Kill
    \/ ExtractTransform

Spec == Init /\ [][Next]_vars

\* the planner alone, on every (start, end, chunks) of the bounded input set
PlanInputs ==
    [start : Epoch1999..(Epoch1999 + MaxSpan),
     end : (Epoch1999 - 1)..(Epoch1999 + MaxSpan),
     chunks : 0..(MaxSpan + 2),
     ranges : {<<>>}, raised : {None}, status : {"input"}]

InitPlan ==
    /\ plan \in PlanInputs
    /\ cacheFile = AbsentFile
    /\ fact = <<>>
    /\ dim_time = <<>>
    /\ pc = "idle"
    /\ existing_data = <<>>
    /\ existing_dates = {}
    /\ cursor = NoCursor
    /\ now = 0
    /\ lastExit = "none"
    /\ lastET = NoET
    /\ recorded = {}
    /\ lostDates = {}
    /\ failed = {}
    /\ lastRebuild = NoRebuild
    /\ dim_currency = <<>>
    /\ lastSeed = NoSeed

PlanApply ==
    /\ plan.status = "input"
    /\ LET planned == ChunkRanges(plan.start, plan.end, plan.chunks)
       IN  plan' = [plan EXCEPT !.ranges = planned.ranges, !.raised = planned.raised,
                                !.status = "planned"]
    /\ UNCHANGED <<cacheFile, fact, dim_time, pc, existing_data, existing_dates, cursor,
                   now, lastExit, lastET, recorded, lostDates, failed, lastRebuild>>
    /\ UNCHANGED currencyVars

NextPlan == PlanApply

SpecPlan == InitPlan /\ [][NextPlan]_vars

\* extract_transform alone, on every cache list of the bounded entry set
OneRate   == << <<"USD", <<6500004>> >> >>
NullRate  == << <<"USD", <<>> >> >>
OtherDate == IsoFormat(Epoch1999 + 1)
\* a "date" text that names no calendar day
BadDate   == <<1999, 2, 30>>

CacheEntries ==
    {Entry("object", <<BASE_CURRENCY>>, d, JsonObject(m), 1, 1) :
        d \in {EchoDate, OtherDate}, m \in RateMaps}
    \cup {Entry("object", <<>>, EchoDate, JsonObject(OneRate), 1, 1),
          Entry("object", <<BASE_CURRENCY>>, NoDate, JsonObject(OneRate), 1, 1),
          Entry("object", <<BASE_CURRENCY>>, BadDate, JsonObject(OneRate), 1, 1),
          Entry("object", <<BASE_CURRENCY>>, EchoDate, Absent, 1, 1),
          Entry("object", <<BASE_CURRENCY>>, EchoDate, JsonArray, 1, 1),
          Entry("object", <<BASE_CURRENCY>>, EchoDate, JsonObject(NullRate), 1, 1),
          ArrayEntry}

InitET ==
    /\ cacheFile \in {ListFile(data) : data \in SeqsUpTo(CacheEntries, MaxEntries)}
    /\ fact = <<>>
    /\ dim_time = <<>>
    /\ pc = "idle"
    /\ existing_data = <<>>
    /\ existing_dates = {}
    /\ plan = NoPlan
    /\ cursor = NoCursor
    /\ now = 0
    /\ lastExit = "none"
    /\ lastET = NoET
    /\ recorded = {}
    /\ lostDates = {}
    /\ failed = {}
    /\ lastRebuild = NoRebuild
    /\ dim_currency = <<>>
    /\ lastSeed = NoSeed

\* a fetch or backfill run between two loads has added one payload to the list
CacheAppend ==
    /\ pc = "idle"
    /\ cacheFile.kind = "list"
    /\ Len(cacheFile.data) < MaxEntries
    /\ \E e \in CacheEntries : cacheFile' = ListFile(Append(cacheFile.data, e))
    /\ UNCHANGED <<fact, dim_time, pc, existing_data, existing_dates, plan, cursor, now,
                   lastExit, lastET, recorded, lostDates, failed, lastRebuild>>
    /\ UNCHANGED currencyVars

NextET ==
    \/ ExtractTransform
    \/ RebuildDimTime
    \/ CacheAppend

SpecET == InitET /\ [][NextET]_vars

\* the two calendar builders, on a cache of one payload for each date of a
\* window that spans a year's end and a leap day
CalStart == ToOrdinal(<<2023, 12, 25>>)

InitCalendar ==
    /\ \E n \in CalStart..(CalStart + CalDays - 1) :
          cacheFile = ListFile(<<Entry("object", <<BASE_CURRENCY>>, IsoFormat(n),
                                       JsonObject(OneRate), 1, 1)>>)
    /\ fact = <<>>
    /\ dim_time = <<>>
    /\ pc = "idle"
    /\ existing_data = <<>>
    /\ existing_dates = {}
    /\ plan = NoPlan
    /\ cursor = NoCursor
    /\ now = 0
    /\ lastExit = "none"
    /\ lastET = NoET
    /\ recorded = {}
    /\ lostDates = {}
    /\ failed = {}
    /\ lastRebuild = NoRebuild
    /\ dim_currency = <<>>
    /\ lastSeed = NoSeed

NextCalendar ==
    \/ ExtractTransform
    \/ RebuildDimTime

SpecCalendar == InitCalendar /\ [][NextCalendar]_vars

\* create_dim_currency alone, run after run on the seeds of the bounded set
InitCurrency == Init /\ cacheFile = AbsentFile

NextCurrency == CreateDimCurrency

SpecCurrency == InitCurrency /\ [][NextCurrency]_vars

\* backfill runs one after another, each carried through to its end: a started
\* script goes on to its next statement, and the backfill is started again
\* whenever no run is under way
NextRetry == BackfillStart \/ BackfillStep \/ BackfillOpen \/ BackfillDump

SpecRetry ==
    /\ Init
    /\ [][NextRetry]_vars
    /\ WF_vars(BackfillStart)
    /\ WF_vars(BackfillStep)
    /\ WF_vars(BackfillOpen)
    /\ WF_vars(BackfillDump)

----------------------------------------------------------------------------
(* Properties *)

Unreadable == {"absent", "invalid"}

\* C1: no two rows of the fact table share (date_key, base_currency,
\* target_currency), after any sequence of merge runs and whatever the cache holds.
C1_FactKeysUnique ==
    \A i, j \in DOMAIN fact : i # j => KeyOf(fact[i]) # KeyOf(fact[j])

\* C2: a merge that completes inserts exactly the candidate rows whose key the
\* store did not hold, and a merge run again right after it with identical
\* candidate rows inserts nothing and ends normally.
C2_MergeIdempotent ==
    /\ lastET.status = "ok" => lastET.inserted = lastET.expected
    /\ lastET.repeat => lastET.inserted = 0 /\ lastET.status \in {"ok", "no_rows"}

C2_Witness ==
    /\ lastET.repeat
    /\ lastET.status = "ok"
    /\ lastET.cands # <<>>
    /\ Len(fact) >= Len(lastET.cands)

\* C3: every fact row present before a step (id, key triple, rate, timestamp,
\* fetched_at) is present, unchanged, after it.
C3_ExistingRowsKept ==
    [][\A i \in DOMAIN fact : \E j \in DOMAIN fact' : fact'[j] = fact[i]]_vars

\* a merge has run whose candidates carried another rate for a triple already stored
C3_Witness ==
    /\ lastET.status = "ok"
    /\ \E i \in DOMAIN lastET.cands, j \in 1..(Len(fact) - lastET.inserted) :
        /\ KeyOf(lastET.cands[i]) = KeyOf(fact[j])
        /\ lastET.cands[i].rate # fact[j].rate

\* C4: every date_key of a fact row has exactly one row in dim_time.
C4_ReferentialIntegrity ==
    \A i \in DOMAIN fact :
        Cardinality({j \in DOMAIN dim_time : dim_time[j].date_key = fact[i].date_key}) = 1

\* C5: a backfill that runs after a terminated backfill fetches no date that the
\* terminated run had recorded.
C5_ResumeSkipsRecorded ==
    [][(pc = "bf_walk" /\ now' # now) => IsoFormat(cursor.date) \notin lostDates]_vars

\* C6: whenever the cache file changes, it changes to the complete new list: it
\* never holds a partial or unparseable file because of a flush.
C6_FlushAtomic ==
    [][cacheFile' # cacheFile =>
         (cacheFile'.kind = "list" /\ cacheFile'.data = existing_data)]_vars

RECURSIVE SumLengths(_, _)
\* the number of days in the first i ranges
SumLengths(ranges, i) ==
    IF i = 0 THEN 0
    ELSE SumLengths(ranges, i - 1) + (ranges[i][2] - ranges[i][1] + 1)

\* C7: for start <= end and chunks >= 1 the planned ranges are in order, start
\* at start, end at end, each begins the day after the one before ends, and
\* their lengths add up to (end - start).days + 1.
C7_ChunksPartition ==
    (plan.status = "planned" /\ plan.start <= plan.end /\ plan.chunks >= 1) =>
        LET r == plan.ranges
        IN  /\ plan.raised = None
            /\ Len(r) >= 1
            /\ r[1][1] = plan.start
            /\ r[Len(r)][2] = plan.end
            /\ \A i \in DOMAIN r : r[i][1] <= r[i][2]
            /\ \A i \in 1..(Len(r) - 1) : r[i + 1][1] = r[i][2] + 1
            /\ SumLengths(r, Len(r)) = (plan.end - plan.start) + 1

\* more chunks asked for than there are days, and more than one range planned
C7_Witness ==
    /\ plan.status = "planned"
    /\ plan.start < plan.end
    /\ plan.chunks > (plan.end - plan.start) + 1
    /\ Len(plan.ranges) = (plan.end - plan.start) + 1

\* C8: planning a range with end_date < start_date fails with InvalidRangeError
\* and returns no range.
C8_InvalidRangeRejected ==
    (plan.status = "planned" /\ plan.end < plan.start) =>
        (plan.raised = "InvalidRangeError" /\ plan.ranges = <<>>)

\* C9: a fetch or backfill run that finds the cache file missing, unparseable or
\* not a JSON list starts with an empty payload list and an empty known-dates
\* set, and its load never raises.
C9_LoadTolerant ==
    /\ lastExit # "load_error"
    /\ (pc \in {"bf_walk", "fh_walk"} /\ cacheFile.kind # "list" /\ recorded = {}) =>
           (existing_data = <<>> /\ existing_dates = {})

C9_Witness ==
    /\ pc = "bf_walk"
    /\ cacheFile.kind = "invalid"
    /\ existing_data = <<>>
    /\ lastExit = "running"

\* C10 as claimed: no stage aborts on an unreadable cache file; extract_transform
\* too goes on as it does with an empty cache.
C10_UnreadableNeverAborts ==
    /\ lastExit # "load_error"
    /\ lastET.kind \in Unreadable => lastET.status = "no_rows"

\* C10: the load of a fetch or backfill run never raises, while extract_transform
\* stops with an error on a missing or unparseable cache file (and with TypeError
\* on a JSON scalar) and leaves both tables as they were.
C10_ExtractTransformStops ==
    /\ [](lastExit # "load_error")
    /\ [][(lastET' # lastET /\ lastET'.kind \in Unreadable \cup {"scalar"}) =>
            /\ fact' = fact
            /\ dim_time' = dim_time
            /\ lastET'.kind = "absent" => lastET'.status = "not_found"
            /\ lastET'.kind = "invalid" => lastET'.status = "invalid_json"
            /\ lastET'.kind = "scalar" => lastET'.status = "type_error"]_vars

\* extract_transform stopped on an unparseable cache after earlier runs had loaded facts
C10_Witness ==
    /\ lastET.status = "invalid_json"
    /\ fact # <<>>

\* C11: a merge that inserts N rows into a table whose largest id is M (0 when
\* the table is empty) gives them the ids M+1 .. M+N in candidate order, and
\* at no time do two fact rows share an id.
C11_IdsContiguous ==
    /\ [](\A i, j \in DOMAIN fact : fact[i].id = fact[j].id => i = j)
    /\ [][(lastET'.status = "ok" /\ fact' # fact) =>
            LET M     == IF fact = <<>> THEN 0
                         ELSE MaxOf({fact[i].id : i \in DOMAIN fact})
                N     == Len(fact') - Len(fact)
                known == {KeyOf(fact[i]) : i \in DOMAIN fact}
                fresh == SelectSeq(lastET'.cands, LAMBDA r : KeyOf(r) \notin known)
            IN  /\ N = Len(fresh)
                /\ SubSeq(fact', 1, Len(fact)) = fact
                /\ \A i \in 1..N :
                      /\ fact'[Len(fact) + i].id = M + i
                      /\ KeyOf(fact'[Len(fact) + i]) = KeyOf(fresh[i])]_vars

\* a second merge has added rows after those of an earlier one
C11_Witness ==
    /\ lastET.status = "ok"
    /\ lastET.inserted >= 2
    /\ Len(fact) > lastET.inserted

\* an entry the flattener has to take: a mapping with a rates mapping, a base
\* and a date
WellFormed(e) == IsDict(e) /\ IsDict(e.rates) /\ e.base # <<>> /\ e.date # NoDate

C13_FailureNotFatal ==
    /\ [](lastExit \notin FailureKinds)
    /\ [][(failed' # failed /\ failed' # {}) =>
             (/\ pc' = pc
              /\ lastExit' = "running"
              /\ cursor' # cursor
              /\ existing_data' = existing_data
              /\ existing_dates' = existing_dates)]_vars
    /\ [][(pc \in {"bf_open", "fh_open"} /\ lastExit' = "done") =>
             (/\ cacheFile' = ListFile(existing_data)
              /\ \A c \in (now - Cardinality(recorded) + 1)..now :
                    \E i \in DOMAIN existing_data :
                       existing_data[i].fetched_at = c)]_vars

\* a backfill walk is over, one date failed and a later date was fetched
C13_Witness ==
    /\ pc = "bf_open"
    /\ \E f \in failed, r \in recorded : DateLess(f, r)

\* C14: a run of create_dim_currency leaves every row of dim_currency with its
\* code and key, and gives the codes that were not in the table the keys after
\* the largest key in use, one per code in ascending code order.
C14_KeysDurable ==
    [][LET old      == dim_currency
           new      == SubSeq(dim_currency', Len(old) + 1, Len(dim_currency'))
           oldCodes == {old[i].currency_code : i \in DOMAIN old}
           newCodes == {new[i].currency_code : i \in DOMAIN new}
           M        == MaxOf({old[i].currency_key : i \in DOMAIN old} \cup {0})
       IN  /\ Len(dim_currency') >= Len(old)
           /\ \A i \in DOMAIN old :
                /\ dim_currency'[i].currency_code = old[i].currency_code
                /\ dim_currency'[i].currency_key = old[i].currency_key
           /\ \A i \in DOMAIN new :
                /\ new[i].currency_code \notin oldCodes
                /\ new[i].currency_key =
                     M + Cardinality({c \in newCodes :
                                        Rank(c) <= Rank(new[i].currency_code)})]_vars

\* a later run has keyed a code that sorts before one keyed by an earlier run
C14_Witness ==
    /\ lastSeed.status = "ok"
    /\ \E i, j \in DOMAIN dim_currency :
          /\ Rank(dim_currency[j].currency_code) < Rank(dim_currency[i].currency_code)
          /\ dim_currency[i].currency_key < dim_currency[j].currency_key

\* C15: no two rows of dim_currency share a currency_code and no two share a
\* currency_key, whatever seed lists the runs were given.
C15_CodesAndKeysUnique ==
    \A i, j \in DOMAIN dim_currency :
        (\/ dim_currency[i].currency_code = dim_currency[j].currency_code
         \/ dim_currency[i].currency_key = dim_currency[j].currency_key) => i = j

\* dim_time holds exactly one row for each date_key of the fact table
DimTimeMatchesFact ==
    /\ \A i, j \in DOMAIN dim_time : dim_time[i].date_key = dim_time[j].date_key => i = j
    /\ {dim_time[i].date_key : i \in DOMAIN dim_time}
         = {fact[i].date_key : i \in DOMAIN fact}

\* C17 as stated: once rebuild_dim_time has run, dim_time holds exactly one row
\* per distinct date_key of the fact table and no other row, whatever it held
\* before.
C17_RebuildMatchesFact == lastRebuild.status # "none" => DimTimeMatchesFact

\* C17 amended: a rebuild over a fact table with at least one row leaves
\* dim_time with exactly one row per distinct date_key of the fact table and no
\* other row; over an empty fact table it stops and leaves dim_time as it was.
C17_RebuildNonEmpty ==
    /\ [](lastRebuild.status = "ok" => fact # <<>> /\ DimTimeMatchesFact)
    /\ [][lastRebuild'.status = "no_rows" => fact = <<>> /\ dim_time' = dim_time]_vars

\* a rebuild has removed the calendar row of a cache date whose load had failed
C17_Witness ==
    /\ lastRebuild.status = "ok"
    /\ lastET.status = "load_failed"
    /\ \E j \in DOMAIN cacheFile.data :
          /\ IsDict(cacheFile.data[j])
          /\ IsDict(cacheFile.data[j].rates)
          /\ cacheFile.data[j].rates.items # <<>>
          /\ ToDatetime(cacheFile.data[j].date) # NoDate
          /\ \A i \in DOMAIN dim_time :
                dim_time[i].date_key # DateKey(cacheFile.data[j].date)

\* 2024-01-01, a Monday
KnownMonday == ToOrdinal(<<2024, 1, 1>>)

\* Monday = 1 .. Sunday = 7, counted in whole weeks from a known Monday
IsoWeekday(n) == ((n - KnownMonday) % 7) + 1

\* C18: each builder emits one row for the input date, with date_key =
\* year*10000 + month*100 + day, day_of_week from 1 (Monday) to 7 (Sunday),
\* week_start_date the Monday day_of_week - 1 days before the date, and
\* is_weekend true exactly on days 6 and 7.
C18_CalendarRows ==
    /\ (lastET.status = "ok" \/ lastRebuild.status = "ok") =>
          /\ Len(dim_time) = 1
          /\ dim_time[1].date = cacheFile.data[1].date
    /\ \A i \in DOMAIN dim_time :
          LET r == dim_time[i]
              n == ToOrdinal(r.date)
              w == ToOrdinal(r.week_start_date)
          IN  /\ r.date_key = r.date[1] * 10000 + r.date[2] * 100 + r.date[3]
              /\ r.day_of_week \in 1..7
              /\ r.day_of_week = IsoWeekday(n)
              /\ w = n - (r.day_of_week - 1)
              /\ IsoWeekday(w) = 1
              /\ n - w \in 0..6
              /\ IsoFormat(w) = r.week_start_date
              /\ r.is_weekend = (r.day_of_week \in {6, 7})

\* the rebuild has written the row of a Sunday whose week began the month before
C18_Witness ==
    /\ lastRebuild.status = "ok"
    /\ \E i \in DOMAIN dim_time :
          /\ dim_time[i].day_of_week = 7
          /\ dim_time[i].is_weekend
          /\ dim_time[i].week_start_date[2] # dim_time[i].date[2]

\* C19: the flattened frame holds exactly one row per key of the rates mapping
\* of each valid payload, carrying that payload's base and date, and is in
\* ascending order of (date, target_currency).
C19_FlattenRows ==
    [][(lastET' # lastET /\ lastET'.status = "ok") =>
        LET data  == cacheFile.data
            cands == lastET'.cands
            valid == {j \in DOMAIN data : WellFormed(data[j])
                                          /\ ToDatetime(data[j].date) # NoDate}
        IN  /\ \A j \in valid : \A k \in DOMAIN data[j].rates.items :
                 LET b == data[j].base[1]
                     d == DateKey(data[j].date)
                     t == data[j].rates.items[k][1]
                 IN  Cardinality({i \in DOMAIN cands :
                                    KeyOf(cands[i]) = <<d, b, t>>})
                       = Cardinality({jk \in UNION {{<<j2, k2>> :
                                                k2 \in DOMAIN data[j2].rates.items} :
                                                j2 \in valid} :
                            /\ data[jk[1]].base[1] = b
                            /\ DateKey(data[jk[1]].date) = d
                            /\ data[jk[1]].rates.items[jk[2]][1] = t})
            /\ \A i, j \in DOMAIN cands :
                 i < j =>
                    \/ cands[i].date_key < cands[j].date_key
                    \/ /\ cands[i].date_key = cands[j].date_key
                       /\ Rank(cands[i].target_currency)
                            <= Rank(cands[j].target_currency)]_vars

\* a payload with two targets, cached before a payload of an earlier date, has
\* been flattened
C19_Witness ==
    /\ lastET.status = "ok"
    /\ Len(lastET.cands) = 3
    /\ lastET.cands[1].exchange_date = EchoDate
    /\ Len(cacheFile.data) = 2
    /\ cacheFile.data[1].date = OtherDate
    /\ cacheFile.data[2].date = EchoDate

\* C20: for start <= end and chunks >= 1 the planner returns min(chunks,
\* total_days) ranges; each but the last spans max(1, total_days div chunks)
\* days and the last runs on to end, taking the remainder.
C20_ChunkCountAndSizes ==
    (plan.status = "planned" /\ plan.start <= plan.end /\ plan.chunks >= 1) =>
        LET total_days == plan.end - plan.start + 1
            n          == Len(plan.ranges)
            size       == IF total_days \div plan.chunks >= 1
                          THEN total_days \div plan.chunks ELSE 1
        IN  /\ plan.raised = None
            /\ n = IF plan.chunks <= total_days THEN plan.chunks ELSE total_days
            /\ \A i \in 1..(n - 1) :
                  plan.ranges[i][2] - plan.ranges[i][1] + 1 = size
            /\ plan.ranges[n][2] = plan.end
            /\ plan.ranges[n][2] - plan.ranges[n][1] + 1 = total_days - (n - 1) * size

\* five days planned in three chunks: two of one day and a last one of three
C20_Witness ==
    /\ plan.status = "planned"
    /\ plan.end - plan.start + 1 = 5
    /\ plan.chunks = 3
    /\ Len(plan.ranges) = 3
    /\ plan.ranges[3][2] - plan.ranges[3][1] + 1 = 3

\* seq is the list whole with nothing before it and anything after it
IsPrefix(seq, whole) ==
    /\ Len(seq) <= Len(whole)
    /\ SubSeq(whole, 1, Len(seq)) = seq

\* C21: the cache is append-only across runs: a fetch or backfill run that starts
\* on a readable cache file (a JSON list) takes that list as it is, only ever
\* appends to it while it runs, and flushes exactly the list it has built, so
\* the payloads of the file at the start are a prefix of the flushed list,
\* unmodified and in the same order.
C21_CacheAppendOnly ==
    [][/\ (pc = "idle" /\ pc' \in {"bf_walk", "fh_walk"} /\ cacheFile.kind = "list")
            => existing_data' = cacheFile.data
       /\ (pc \in {"bf_walk", "fh_walk"} /\ cacheFile.kind = "list")
            => IsPrefix(cacheFile.data, existing_data)
       /\ (pc # "idle" /\ pc' # "idle")
            => IsPrefix(existing_data, existing_data')
       /\ (pc \in {"bf_open", "fh_open"} /\ lastExit' = "done")
            => cacheFile' = ListFile(existing_data)]_vars

\* a run that loaded one payload from the file and has fetched a second one is
\* at its flush
C21_Witness ==
    /\ pc \in {"bf_open", "fh_open"}
    /\ Len(existing_data) = 2
    /\ Cardinality(recorded) = 1
    /\ existing_data[1].fetched_at < existing_data[2].fetched_at

\* the "date" fields of the payloads of a list
PayloadDates(data) == {data[i].date : i \in DOMAIN data}

\* C22: starting from an empty cache, the cache list holds at most one payload
\* per date, in the file and in the list a run is building, and the set of
\* known dates a run skips by equals the set of "date" fields of the payloads
\* of its list, also when a response carries a date other than the requested one.
C22_OnePayloadPerDate ==
    /\ cacheFile.kind = "list" =>
          \A i, j \in DOMAIN cacheFile.data :
              i # j => cacheFile.data[i].date # cacheFile.data[j].date
    /\ pc # "idle" =>
          /\ \A i, j \in DOMAIN existing_data :
                i # j => existing_data[i].date # existing_data[j].date
          /\ existing_dates = PayloadDates(existing_data)

\* the key triples of the whole fact table
AllKeys(factTbl) == {KeyOf(factTbl[i]) : i \in DOMAIN factTbl}

\* C23: the window [min date_key, max date_key] of the candidate rows loses
\* nothing: in every merge that completes, the candidates classified as new
\* against the keys of the window are those classified as new against the keys
\* of the whole fact table, and the table grows by exactly these rows.
C23_WindowLosesNothing ==
    [][(lastET' # lastET /\ lastET'.status = "ok") =>
         LET cands == lastET'.cands
             dkeys == {cands[i].date_key : i \in DOMAIN cands}
             fresh == NewRows(cands, AllKeys(fact))
         IN  /\ NewRows(cands, ExistingKeys(fact, MinOf(dkeys), MaxOf(dkeys))) = fresh
             /\ fact' = fact \o AssignIds(fresh, MaxId(fact))]_vars

\* a merge has inserted rows into a fact table that holds a row dated outside
\* the window of its candidates
C23_Witness ==
    /\ lastET.status = "ok"
    /\ lastET.inserted > 0
    /\ LET dkeys == {lastET.cands[i].date_key : i \in DOMAIN lastET.cands}
       IN  \E i \in DOMAIN fact :
              \/ fact[i].date_key < MinOf(dkeys)
              \/ fact[i].date_key > MaxOf(dkeys)

\* the dates of the range a backfill of one year walks: 1999-01-01 .. yesterday
BackfillRange == {IsoFormat(d) : d \in Epoch1999..(Today - 1)}

\* the list holds a payload for every date of the range
Complete(data) == BackfillRange \subseteq PayloadDates(data)

\* C24: a date whose fetch fails goes neither into the cache list nor into the
\* set of known dates, so it is not skipped and the next run requests it again;
\* once every date of the range has had a successful fetch (a run over the range
\* reaches its flush with no date failed), the repeated runs lead to a cache
\* file holding a payload for every date of the range; and a run that starts on
\* such a file knows every date of the range, so it fetches nothing.
C24_RetryCompletes ==
    /\ [][failed' \notin {failed, {}} =>
            /\ existing_data' = existing_data
            /\ existing_dates' = existing_dates
            /\ (failed' \ failed) \cap existing_dates' = {}]_vars
    /\ [][(pc = "idle" /\ pc' = "bf_walk" /\ cacheFile.kind = "list"
              /\ Complete(cacheFile.data))
            => BackfillRange \subseteq existing_dates']_vars
    /\ (pc = "bf_open" /\ failed = {}
          /\ plan.start = Epoch1999 /\ plan.end = Today - 1)
         ~> (cacheFile.kind = "list" /\ Complete(cacheFile.data))

====
